---- MODULE Spec2Model ----
(***************************************************************************)
(* Dividend and stock split scanner (slate63/dolla-api).                   *)
(*                                                                         *)
(* The model covers the API scan (app.py: scan_generic and its three       *)
(* endpoints, add_technical_indicators) and the command-line scanners      *)
(* (scan_dividends.py, scan_ssplit.py, scan_ssplit_list.py).               *)
(*                                                                         *)
(* Data representation                                                     *)
(*   - a Python string is a sequence of one-character strings, so that     *)
(*     upper(), lower() and the substring test are computed, <<>> is the   *)
(*     empty string and None (both are falsy in `if ticker:`);             *)
(*   - a nullable number read from a file is an integer or NaN;            *)
(*   - a computed float is an exact rational [num, den], den = 0 is NaN;   *)
(*   - a DataFrame is a sequence of rows, a row is a function from column  *)
(*     names to values.                                                    *)
(***************************************************************************)
EXTENDS Integers, Sequences, FiniteSets, TLC

VARIABLES
    tool,               \* which program runs: "api", "cli_dividends", "cli_splits", "cli_list"
    request,            \* the request / the command line arguments
    dir_exists,         \* whether the data directory exists
    directory,          \* the parquet files of the directory (or the file list), in listing order
    pc,                 \* position of the running scan
    files,              \* the candidate files after the filename filter
    idx,                \* number of files the loop has processed
    results,            \* list of per-source tables (API, cli_list) or printed tables (cli)
    total_dividends,
    total_stock_splits, \* total_splits in the command-line scanners
    files_with_data,    \* files_with_splits in scan_ssplit_list.py
    files_with_errors,
    response,           \* the returned object (a function from keys to values)
    exc,                \* the exception that left the handler, "" when none
    ind                 \* the table of the indicator calculations (SpecSMA, SpecEMA)

vars == << tool, request, dir_exists, directory, pc, files, idx, results,
           total_dividends, total_stock_splits, files_with_data,
           files_with_errors, response, exc, ind >>

scan_vars == << tool, request, dir_exists, directory, pc, files, idx, results,
                total_dividends, total_stock_splits, files_with_data,
                files_with_errors, response, exc >>

---------------------------------------------------------------------------
(* Bounds of the model *)
MaxFiles == 2       \* files in the directory of a multi-file scan
MaxRows == 2        \* rows of the file of a single-file scan
MaxLen == 201       \* longest table of the rolling-mean calculation
MaxEmaRows == 3     \* longest table of the exponential-mean calculation

---------------------------------------------------------------------------
(* Strings *)

NoneStr == << >>

UpperChar(c) ==
    CASE c = "a" -> "A"
      [] c = "b" -> "B"
      [] c = "x" -> "X"
      [] OTHER -> c

LowerChar(c) ==
    CASE c = "A" -> "a"
      [] c = "B" -> "b"
      [] c = "X" -> "x"
      [] OTHER -> c

Upper(s) == [i \in DOMAIN s |-> UpperChar(s[i])]

Lower(s) == [i \in DOMAIN s |-> LowerChar(s[i])]

\* Python's `sub in s`
Contains(sub, s) ==
    \E i \in 0..(Len(s) - Len(sub)) : SubSeq(s, i + 1, i + Len(sub)) = sub

---------------------------------------------------------------------------
(* Numbers *)

NaN == 0 - 1

QNaN == [num |-> 0, den |-> 0]

IsNaN(q) == q.den = 0

RECURSIVE Gcd(_, _)
Gcd(a, b) == IF b = 0 THEN a ELSE Gcd(b, a % b)

\* the rational n/d in lowest terms (n >= 0, d > 0)
Q(n, d) == LET g == Gcd(n, d) IN [num |-> n \div g, den |-> d \div g]

ToQ(c) == IF c = NaN THEN QNaN ELSE Q(c, 1)

\* float arithmetic: NaN propagates; the exact arithmetic cancels common
\* factors before it multiplies
QMul(a, b) ==
    IF IsNaN(a) \/ IsNaN(b) THEN QNaN
    ELSE LET g1 == Gcd(a.num, b.den)
             g2 == Gcd(b.num, a.den)
         IN Q((a.num \div g1) * (b.num \div g2), (a.den \div g2) * (b.den \div g1))

QInv(a) == [num |-> a.den, den |-> a.num]

QDiv(a, b) == QMul(a, QInv(b))

QAdd(a, b) ==
    IF IsNaN(a) \/ IsNaN(b) THEN QNaN
    ELSE LET g == Gcd(a.den, b.den)
         IN Q(a.num * (b.den \div g) + b.num * (a.den \div g),
              (a.den \div g) * b.den)

---------------------------------------------------------------------------
(* Constants of app.py *)

ALL_COLUMNS == << "timestamp", "symbol", "open", "high", "low", "close",
                  "volume", "dividends", "stock splits" >>

DIVIDEND_COLS == << "timestamp", "symbol", "dividends" >>

SPLIT_COLS == << "timestamp", "symbol", "stock splits" >>

SMA_PERIODS == << 5, 20, 50, 100, 200 >>

EMA_PERIODS == << 50, 100, 200 >>

Range(s) == {s[i] : i \in DOMAIN s}

\* f"sma_{period}" and f"ema_{period}"
SmaName(period) ==
    CASE period = 5 -> "sma_5"
      [] period = 20 -> "sma_20"
      [] period = 50 -> "sma_50"
      [] period = 100 -> "sma_100"
      [] period = 200 -> "sma_200"

EmaName(period) ==
    CASE period = 50 -> "ema_50"
      [] period = 100 -> "ema_100"
      [] period = 200 -> "ema_200"

---------------------------------------------------------------------------
(* Indicator Calculator: add_technical_indicators *)

\* Series.rolling(window=w).mean(): min_periods defaults to the window, the
\* window slides by adding the entering value and removing the leaving one;
\* a NaN is no observation.  st is the running [nobs, sum, out].
RollStep(close, w, i, st) ==
    LET add == close[i] # NaN
        nobs1 == IF add THEN st.nobs + 1 ELSE st.nobs
        sum1 == IF add THEN st.sum + close[i] ELSE st.sum
        rem == i > w /\ close[i - w] # NaN
        nobs2 == IF rem THEN nobs1 - 1 ELSE nobs1
        sum2 == IF rem THEN sum1 - close[i - w] ELSE sum1
        val == IF nobs2 >= w THEN Q(sum2, nobs2) ELSE QNaN
    IN [nobs |-> nobs2, sum |-> sum2, out |-> Append(st.out, val)]

\* the steps lo..hi in order (split in halves to keep the evaluation shallow)
RECURSIVE RollRun(_, _, _, _, _)
RollRun(close, w, lo, hi, st) ==
    IF lo > hi THEN st
    ELSE IF lo = hi THEN RollStep(close, w, lo, st)
    ELSE LET mid == (lo + hi) \div 2
             left == RollRun(close, w, lo, mid, st)
         IN \* the test makes the first half evaluated before the second
            IF Len(left.out) = mid THEN RollRun(close, w, mid + 1, hi, left) ELSE left

\* faulty variant, for comparison: the window is one row too long
RollingMeanWide(close, w) ==
    RollRun(close, w + 1, 1, Len(close), [nobs |-> 0, sum |-> 0, out |-> << >>]).out

RollingMean(close, w) ==
    RollRun(close, w, 1, Len(close), [nobs |-> 0, sum |-> 0, out |-> << >>]).out

\* Series.ewm(span=w, adjust=False).mean(): alpha = 2/(w+1), ignore_na=False,
\* min_periods 0 (at least one observation).  `weighted` is the running mean,
\* old_wt the weight of the past, which keeps decaying over missing values.
RECURSIVE EwmFrom(_, _, _, _, _, _)
EwmFrom(close, w, i, weighted, old_wt, out) ==
    IF i > Len(close) THEN out
    ELSE LET alpha == Q(2, w + 1)
             old_wt_factor == Q(w - 1, w + 1)
             cur == ToQ(close[i])
             is_observation == ~IsNaN(cur)
             decayed == QMul(old_wt, old_wt_factor)
             weighted1 ==
                 IF ~IsNaN(weighted)
                 THEN IF is_observation /\ weighted # cur
                      THEN QDiv(QAdd(QMul(decayed, weighted), QMul(alpha, cur)),
                                QAdd(decayed, alpha))
                      ELSE weighted
                 ELSE cur
             old_wt1 ==
                 IF ~IsNaN(weighted)
                 THEN IF is_observation THEN Q(1, 1) ELSE decayed
                 ELSE old_wt
         IN EwmFrom(close, w, i + 1, weighted1, old_wt1, Append(out, weighted1))

\* faulty variant, for comparison: the period is taken as the centre of mass, alpha = 1/(w+1)
EwmMeanCom(close, w) ==
    IF close = << >> THEN << >>
    ELSE EwmFrom(close, 2 * w + 1, 2, ToQ(close[1]), Q(1, 1), << ToQ(close[1]) >>)

EwmMean(close, w) ==
    IF close = << >> THEN << >>
    ELSE EwmFrom(close, w, 2, ToQ(close[1]), Q(1, 1), << ToQ(close[1]) >>)

Column(df, name) == [i \in DOMAIN df |-> df[i][name]]

\* the row orders df.sort_values("timestamp") can produce: the default sort
\* kind is quicksort, which is not stable, so rows with equal timestamps
\* come out in any order
SortOrders(df) ==
    {p \in [DOMAIN df -> DOMAIN df] :
        /\ \A i, j \in DOMAIN df : i # j => p[i] # p[j]
        /\ \A i, j \in DOMAIN df :
              i < j => df[p[i]]["timestamp"] <= df[p[j]]["timestamp"]}

\* faulty variant, for comparison: the sorted table is thrown away
SortValuesDiscarded(df) == {df}

SortValues(df) == {[i \in DOMAIN df |-> df[p[i]]] : p \in SortOrders(df)}

\* lines 41-45 on a table already sorted
WithIndicators(df) ==
    LET close == Column(df, "close")
        sma == [k \in DOMAIN SMA_PERIODS |-> RollingMean(close, SMA_PERIODS[k])]
        ema == [k \in DOMAIN EMA_PERIODS |-> EwmMean(close, EMA_PERIODS[k])]
        cols == {SmaName(SMA_PERIODS[k]) : k \in DOMAIN SMA_PERIODS}
                  \cup {EmaName(EMA_PERIODS[k]) : k \in DOMAIN EMA_PERIODS}
        value(i, c) ==
            IF \E k \in DOMAIN SMA_PERIODS : c = SmaName(SMA_PERIODS[k])
            THEN sma[CHOOSE k \in DOMAIN SMA_PERIODS : c = SmaName(SMA_PERIODS[k])][i]
            ELSE ema[CHOOSE k \in DOMAIN EMA_PERIODS : c = EmaName(EMA_PERIODS[k])][i]
    IN [i \in DOMAIN df |-> df[i] @@ [c \in cols |-> value(i, c)]]

\* the tables add_technical_indicators(df) can return
add_technical_indicators(df) == {WithIndicators(s) : s \in SortValues(df)}

---------------------------------------------------------------------------
(* Sources: what a parquet file on disk is to the scanners *)

\* one row (Bar) of a source file; open, high and low repeat the close
Bar(t, s, c, d, p) ==
    [timestamp |-> t, symbol |-> s, open |-> c, high |-> c, low |-> c,
     close |-> c, volume |-> 0, dividends |-> d] @@ ("stock splits" :> p)

\* status: "ok" the file decodes; "bad_data" its footer (schema) is intact
\* and its data pages are not; "bad_footer" nothing of it decodes;
\* "missing" the path does not exist (any more).
\* columns: the columns its schema declares.
\* symbol_is_str / close_is_num: the dtype of the two columns the code
\* applies typed operations to (.str.upper(), rolling().mean()).
Source(name, status, columns, symbol_is_str, close_is_num, rows) ==
    [name |-> name, status |-> status, columns |-> columns,
     symbol_is_str |-> symbol_is_str, close_is_num |-> close_is_num,
     rows |-> rows]

\* pd.read_parquet(path) (and with columns=...) raises
ReadFails(f) == f.status # "ok"

\* pq.read_schema(path) raises
SchemaFails(f) == f.status \in {"bad_footer", "missing"}

---------------------------------------------------------------------------
(* Schema Validator and Row Filter *)

\* faulty variant, for comparison: any() for all()
HasAnyRequiredColumn(df_columns, required_columns) ==
    \E i \in DOMAIN required_columns : required_columns[i] \in df_columns

has_required_columns_df(df_columns, required_columns) ==
    \A i \in DOMAIN required_columns : required_columns[i] \in df_columns

\* scan_ssplit_list.py: the schema is read first, a failure is "no"
has_required_columns(f, required_columns) ==
    IF SchemaFails(f) THEN FALSE
    ELSE \A i \in DOMAIN required_columns : required_columns[i] \in f.columns

\* df[cols]
Project(df, cols) == [i \in DOMAIN df |-> [c \in Range(cols) |-> df[i][c]]]

\* app.py: df[df['symbol'].str.upper() == ticker.upper()]
TickerFilterApi(df, ticker) ==
    LET keep(row) == Upper(row["symbol"]) = Upper(ticker)
    IN SelectSeq(df, keep)

\* command-line scanners: df[df['symbol'] == ticker_filter.upper()]
TickerFilterCli(df, ticker_filter) ==
    LET keep(row) == row["symbol"] = Upper(ticker_filter)
    IN SelectSeq(df, keep)

\* faulty variant, for comparison: the gate on the event column is left out
EventFilterOff(df, value_column) == df

\* df[df[value_column] != 0]  (NaN != 0 is True)
EventFilter(df, value_column) ==
    LET keep(row) == row[value_column] # 0
    IN SelectSeq(df, keep)

\* df['file'] = name
Tag(df, name) == [i \in DOMAIN df |-> df[i] @@ ("file" :> name)]

\* pd.concat(results, ignore_index=True)
RECURSIVE Concat(_)
Concat(tables) ==
    IF tables = << >> THEN << >> ELSE Head(tables) \o Concat(Tail(tables))

---------------------------------------------------------------------------
(* API: the three endpoints and scan_generic *)

Endpoint(mode) ==
    CASE mode = "dividends" ->
           [required_columns |-> DIVIDEND_COLS, value_column |-> "dividends",
            endpoint_label |-> "DIVIDEND_SCAN", full_data |-> FALSE]
      [] mode = "splits" ->
           [required_columns |-> SPLIT_COLS, value_column |-> "stock splits",
            endpoint_label |-> "SPLIT_SCAN", full_data |-> FALSE]
      [] mode = "full" ->
           [required_columns |-> ALL_COLUMNS, value_column |-> "None",
            endpoint_label |-> "FULL_SCAN", full_data |-> TRUE]

\* line 124: filename_contains.lower() in f.name.lower()
FilenameFilter(listing, filename_contains) ==
    IF filename_contains # NoneStr
    THEN LET keep(f) == Contains(Lower(filename_contains), Lower(f.name))
         IN SelectSeq(listing, keep)
    ELSE listing

\* faulty variant, for comparison: a skipped file is handled as a failed one
OutcomeSkipAsError(kind, df, div_add, split_add) ==
    [kind |-> IF kind = "skip" THEN "error" ELSE kind,
     df |-> df, div_add |-> div_add, split_add |-> split_add]

\* what one pass of the loop body (lines 138-164) does to one file:
\*   kind "error"  an exception reached the except clause
\*   kind "skip"   the `continue` of line 141
\*   kind "done"   the body ran to its end with table df
\* div_add / split_add: what lines 150/152 added to the totals before that.
Outcome(kind, df, div_add, split_add) ==
    [kind |-> kind, df |-> df, div_add |-> div_add, split_add |-> split_add]

ApiProcess(f, ep, ticker) ==
    IF ReadFails(f) THEN {Outcome("error", << >>, 0, 0)}
    ELSE IF ~has_required_columns_df(f.columns, ep.required_columns)
    THEN {Outcome("skip", << >>, 0, 0)}
    ELSE
      LET cols == IF ep.full_data THEN ALL_COLUMNS ELSE ep.required_columns
          df1 == Project(f.rows, cols)
      IN IF \E i \in DOMAIN cols : cols[i] \notin f.columns
         THEN {Outcome("error", << >>, 0, 0)}     \* KeyError of df[cols]
         ELSE IF ticker # NoneStr /\ ~f.symbol_is_str
         THEN {Outcome("error", << >>, 0, 0)}     \* .str on a non-string column
         ELSE
           LET df2 == IF ticker # NoneStr THEN TickerFilterApi(df1, ticker) ELSE df1
               gated == ~ep.full_data /\ ep.value_column \in Range(cols)
               df3 == IF gated THEN EventFilter(df2, ep.value_column) ELSE df2
               div_add == IF gated /\ ep.value_column = "dividends"
                          THEN Len(df3) ELSE 0
               split_add == IF gated /\ ep.value_column = "stock splits"
                            THEN Len(df3) ELSE 0
           IN IF ep.full_data /\ df3 # << >>
              THEN IF ~f.close_is_num
                   THEN {Outcome("error", << >>, div_add, split_add)}  \* rolling on text
                   ELSE {Outcome("done", d, div_add, split_add) :
                            d \in add_technical_indicators(df3)}
              ELSE {Outcome("done", df3, div_add, split_add)}

\* lines 111-135
ScanStart ==
    /\ tool = "api" /\ pc = "start"
    /\ IF ~dir_exists
       THEN /\ pc' = "raised"
            /\ exc' = "HTTPException"
            /\ UNCHANGED << files, response >>
       ELSE LET found == FilenameFilter(directory, request.filename_contains)
            IN /\ files' = found
               /\ exc' = exc
               /\ IF found = << >>
                  THEN /\ pc' = "returned"
                       /\ response' =
                            [files_scanned |-> 0, files_with_data |-> 0,
                             files_with_errors |-> 0, elapsed_seconds |-> 0,
                             results |-> << >>,
                             message |-> "No files matched the given filters."]
                  ELSE /\ pc' = "loop"
                       /\ response' = response
    /\ UNCHANGED << tool, request, dir_exists, directory, idx, results,
                    total_dividends, total_stock_splits, files_with_data,
                    files_with_errors, ind >>

\* lines 137-164, one file
ScanFile ==
    /\ tool = "api" /\ pc = "loop" /\ idx < Len(files)
    /\ \E o \in ApiProcess(files[idx + 1], Endpoint(request.mode), request.ticker) :
          /\ total_dividends' = total_dividends + o.div_add
          /\ total_stock_splits' = total_stock_splits + o.split_add
          /\ files_with_errors' =
                IF o.kind = "error" THEN files_with_errors + 1 ELSE files_with_errors
          /\ IF o.kind = "done" /\ o.df # << >>
             THEN /\ results' = Append(results, Tag(o.df, files[idx + 1].name))
                  /\ files_with_data' = files_with_data + 1
             ELSE UNCHANGED << results, files_with_data >>
    /\ idx' = idx + 1
    /\ UNCHANGED << tool, request, dir_exists, directory, pc, files, response,
                    exc, ind >>

\* lines 166-194: the log line reads request.client.host, and request.client
\* is None when the server passes no client address
ScanFinish ==
    /\ tool = "api" /\ pc = "loop" /\ idx = Len(files)
    /\ IF request.client = "None"
       THEN /\ pc' = "raised"
            /\ exc' = "AttributeError"
            /\ response' = response
       ELSE LET ep == Endpoint(request.mode)
                base == [files_scanned |-> Len(files),
                         files_with_data |-> files_with_data,
                         files_with_errors |-> files_with_errors,
                         elapsed_seconds |-> 0,
                         results |-> IF results # << >> THEN Concat(results) ELSE << >>]
            IN /\ pc' = "returned"
               /\ exc' = exc
               /\ response' =
                    IF ~ep.full_data /\ ep.value_column = "dividends"
                    THEN base @@ ("total_dividends" :> total_dividends)
                    ELSE IF ~ep.full_data /\ ep.value_column = "stock splits"
                    THEN base @@ ("total_stock_splits" :> total_stock_splits)
                    ELSE base
    /\ UNCHANGED << tool, request, dir_exists, directory, files, idx, results,
                    total_dividends, total_stock_splits, files_with_data,
                    files_with_errors, ind >>

---------------------------------------------------------------------------
(* Command-line scanners *)

\* code points, for sorted(): digits < upper case < lower case
CharCode(c) ==
    CASE c = "1" -> 49 [] c = "2" -> 50 [] c = "3" -> 51 [] c = "4" -> 52
      [] c = "A" -> 65 [] c = "B" -> 66 [] c = "X" -> 88
      [] c = "a" -> 97 [] c = "b" -> 98 [] c = "x" -> 120

RECURSIVE StrLess(_, _)
StrLess(s, t) ==
    IF t = << >> THEN FALSE
    ELSE IF s = << >> THEN TRUE
    ELSE IF CharCode(Head(s)) # CharCode(Head(t))
    THEN CharCode(Head(s)) < CharCode(Head(t))
    ELSE StrLess(Tail(s), Tail(t))

\* sorted(...) of a listing, by file name (the names of a directory differ)
SortedByName(listing) ==
    LET p == CHOOSE q \in [DOMAIN listing -> DOMAIN listing] :
                 /\ \A i, j \in DOMAIN listing : i # j => q[i] # q[j]
                 /\ \A i, j \in DOMAIN listing :
                       i < j => StrLess(listing[q[i]].name, listing[q[j]].name)
    IN [i \in DOMAIN listing |-> listing[p[i]]]

CliColumn(t) == IF t = "cli_dividends" THEN "dividends" ELSE "stock splits"

CliColumns(t) == << "timestamp", "symbol", CliColumn(t) >>

\* pd.read_parquet(path, columns=cols) raises: undecodable, or a column of
\* cols is not in the file
ReadColumnsFails(f, cols) ==
    ReadFails(f) \/ \E i \in DOMAIN cols : cols[i] \notin f.columns

\* scan_dividends.py / scan_ssplit.py, lines 7-17
CliStart ==
    /\ tool \in {"cli_dividends", "cli_splits"} /\ pc = "start"
    /\ IF ~dir_exists
       THEN /\ pc' = "returned"
            /\ response' = [message |-> "Directory not found"]
            /\ files' = files
       ELSE LET found == SortedByName(directory)
            IN /\ files' = found
               /\ IF found = << >>
                  THEN /\ pc' = "returned"
                       /\ response' = [message |-> "No Parquet files found."]
                  ELSE /\ pc' = "loop"
                       /\ response' = response
    /\ UNCHANGED << tool, request, dir_exists, directory, idx, results,
                    total_dividends, total_stock_splits, files_with_data,
                    files_with_errors, exc, ind >>

\* lines 19-31, one file; a printed table is kept with the name printed above it
CliFile ==
    /\ tool \in {"cli_dividends", "cli_splits"} /\ pc = "loop" /\ idx < Len(files)
    /\ LET f == files[idx + 1]
           cols == CliColumns(tool)
           df1 == Project(f.rows, cols)
           df2 == IF request.ticker # NoneStr
                  THEN TickerFilterCli(df1, request.ticker) ELSE df1
           df3 == EventFilter(df2, CliColumn(tool))
       IN IF ReadColumnsFails(f, cols)
          THEN UNCHANGED << results, total_dividends, total_stock_splits >>
          ELSE IF df3 # << >>
          THEN /\ results' = Append(results, [file |-> f.name, df |-> df3])
               /\ total_dividends' =
                     IF tool = "cli_dividends"
                     THEN total_dividends + Len(df3) ELSE total_dividends
               /\ total_stock_splits' =
                     IF tool = "cli_splits"
                     THEN total_stock_splits + Len(df3) ELSE total_stock_splits
          ELSE UNCHANGED << results, total_dividends, total_stock_splits >>
    /\ idx' = idx + 1
    /\ UNCHANGED << tool, request, dir_exists, directory, pc, files,
                    files_with_data, files_with_errors, response, exc, ind >>

\* line 33
CliFinish ==
    /\ tool \in {"cli_dividends", "cli_splits"} /\ pc = "loop" /\ idx = Len(files)
    /\ pc' = "returned"
    /\ response' = [found |-> IF tool = "cli_dividends"
                              THEN total_dividends ELSE total_stock_splits]
    /\ UNCHANGED << tool, request, dir_exists, directory, files, idx, results,
                    total_dividends, total_stock_splits, files_with_data,
                    files_with_errors, exc, ind >>

\* scan_ssplit_list.py, lines 22-36: the files are the argument list
ListStart ==
    /\ tool = "cli_list" /\ pc = "start"
    /\ files' = directory
    /\ IF directory = << >>
       THEN /\ pc' = "returned"
            /\ response' = [message |-> "No files provided."]
       ELSE /\ pc' = "loop"
            /\ response' = response
    /\ UNCHANGED << tool, request, dir_exists, directory, idx, results,
                    total_dividends, total_stock_splits, files_with_data,
                    files_with_errors, exc, ind >>

\* lines 39-60, one file
ListFile ==
    /\ tool = "cli_list" /\ pc = "loop" /\ idx < Len(files)
    /\ LET f == files[idx + 1]
           required_cols == SPLIT_COLS
           df1 == Project(f.rows, required_cols)
           df2 == IF request.ticker # NoneStr
                  THEN TickerFilterCli(df1, request.ticker) ELSE df1
           df3 == EventFilter(df2, "stock splits")
       IN IF f.status = "missing"
          THEN UNCHANGED << results, total_stock_splits, files_with_data >>
          ELSE IF ~has_required_columns(f, required_cols)
          THEN UNCHANGED << results, total_stock_splits, files_with_data >>
          ELSE IF ReadColumnsFails(f, required_cols)
          THEN UNCHANGED << results, total_stock_splits, files_with_data >>
          ELSE IF df3 # << >>
          THEN /\ results' = Append(results, Tag(df3, f.name))
               /\ total_stock_splits' = total_stock_splits + Len(df3)
               /\ files_with_data' = files_with_data + 1
          ELSE UNCHANGED << results, total_stock_splits, files_with_data >>
    /\ idx' = idx + 1
    /\ UNCHANGED << tool, request, dir_exists, directory, pc, files,
                    total_dividends, files_with_errors, response, exc, ind >>

\* lines 62-89; the console preview and the export files are sinks
ListFinish ==
    /\ tool = "cli_list" /\ pc = "loop" /\ idx = Len(files)
    /\ pc' = "returned"
    /\ response' =
          [files_scanned |-> Len(files),
           files_with_splits |-> files_with_data,
           total_splits |-> total_stock_splits,
           results |-> IF results # << >>
                       THEN Project(Concat(results),
                                    << "timestamp", "symbol", "stock splits", "file" >>)
                       ELSE << >>]
    /\ UNCHANGED << tool, request, dir_exists, directory, files, idx, results,
                    total_dividends, total_stock_splits, files_with_data,
                    files_with_errors, exc, ind >>

---------------------------------------------------------------------------
(* Inputs *)

AB == << "A", "B" >>
ab == << "a", "b" >>
A1 == << "A" >>

\* no ticker, or a mixed-case ticker whose upper case is AB
Tickers == {NoneStr, << "a", "B" >>}

Modes == {"dividends", "splits", "full"}

\* no filter, one matching b1 and B2 whatever the case, one matching nothing
Filters == {NoneStr, << "B" >>, << "x" >>}

Timestamps == {1, 2}

\* the names of a listing, in listing order (not sorted)
FileNames == << << "b", "1" >>, << "B", "2" >>, << "a", "3" >>, << "A", "4" >> >>

AllCols == Range(ALL_COLUMNS)

\* contents of the files of a multi-file scan
PlainContents ==
    { \* a dividend row and a split row, timestamps descending
      Source(NoneStr, "ok", AllCols, TRUE, TRUE,
             << Bar(2, AB, 1, 1, 0), Bar(1, ab, 2, 0, 2) >>),
      \* no event at all
      Source(NoneStr, "ok", AllCols, TRUE, TRUE, << Bar(1, AB, 1, 0, 0) >>),
      \* undecodable
      Source(NoneStr, "bad_footer", {}, TRUE, TRUE, << >>),
      \* schema without the dividends column, data pages unreadable
      Source(NoneStr, "bad_data", AllCols \ {"dividends"}, TRUE, TRUE, << >>),
      \* schema without the dividends column, readable
      Source(NoneStr, "ok", AllCols \ {"dividends"}, TRUE, TRUE,
             << Bar(1, AB, 1, 0, 2) >>),
      \* symbol column of integers
      Source(NoneStr, "ok", AllCols, FALSE, TRUE, << Bar(1, << "1" >>, 1, 1, 2) >>),
      \* close column of text
      Source(NoneStr, "ok", AllCols, TRUE, FALSE, << Bar(1, AB, 1, 1, 2) >>),
      \* deleted after the listing
      Source(NoneStr, "missing", {}, TRUE, TRUE, << >>) }

Named(content, i) == [content EXCEPT !.name = FileNames[i]]

Listings(n) ==
    {[i \in 1..n |-> Named(c[i], i)] : c \in [1..n -> PlainContents]}

\* rows of the file of a single-file scan: a split row and a dividend row
\* under both casings of the symbol, a row with both events under a symbol
\* that is a prefix of the ticker, a row whose dividend and close are missing
RichBars ==
    {Bar(t, s, e[1], e[2], e[3]) :
        t \in Timestamps, s \in {AB, ab}, e \in { << 1, 0, 2 >>, << 2, 1, 0 >> }}
    \cup {Bar(t, A1, 1, 1, 2) : t \in Timestamps}
    \cup {Bar(t, AB, NaN, NaN, 0) : t \in Timestamps}

RichListings ==
    UNION {{ << Source(FileNames[1], "ok", AllCols, TRUE, TRUE, rows) >> :
               rows \in [1..n -> RichBars]} : n \in 1..MaxRows}

ApiRequests(filters, clients) ==
    [mode : Modes, ticker : Tickers, filename_contains : filters, client : clients]

CliRequests(t) ==
    [mode : {IF t = "cli_dividends" THEN "dividends" ELSE "splits"},
     ticker : Tickers, filename_contains : {NoneStr}, client : {"Address"}]

CliTools == {"cli_dividends", "cli_splits", "cli_list"}

InitAccumulators ==
    /\ pc = "start"
    /\ files = << >>
    /\ idx = 0
    /\ results = << >>
    /\ total_dividends = 0
    /\ total_stock_splits = 0
    /\ files_with_data = 0
    /\ files_with_errors = 0
    /\ response = << >>
    /\ exc = ""
    /\ ind = << >>

\* a scan of a directory of up to MaxFiles files
InitMulti ==
    /\ tool \in {"api"} \cup CliTools
    /\ dir_exists \in BOOLEAN
    /\ directory \in UNION {Listings(n) : n \in 0..MaxFiles}
    /\ dir_exists = FALSE => directory = << >>
    /\ request \in IF tool = "api"
                   THEN ApiRequests(Filters, {"None", "Address"})
                   ELSE CliRequests(tool)
    /\ InitAccumulators

\* a scan of one file of up to MaxRows rows
InitRich ==
    /\ tool \in {"api"} \cup CliTools
    /\ dir_exists = TRUE
    /\ directory \in RichListings
    /\ request \in IF tool = "api"
                   THEN ApiRequests({NoneStr}, {"Address"})
                   ELSE CliRequests(tool)
    /\ InitAccumulators

Init == InitMulti \/ InitRich

Next ==
    \/ ScanStart
    \/ ScanFile
    \/ ScanFinish
    \/ CliStart
    \/ CliFile
    \/ CliFinish
    \/ ListStart
    \/ ListFile
    \/ ListFinish

Spec == Init /\ [][Next]_vars

---------------------------------------------------------------------------
(* The indicator calculations on their own: the loops of lines 41-42 and    *)
(* 43-45 applied to the close column of a table sorted by timestamp         *)

\* no scan is running
Idle ==
    /\ tool = "none"
    /\ request = << >>
    /\ dir_exists = FALSE
    /\ directory = << >>
    /\ pc = "idle"
    /\ files = << >>
    /\ idx = 0
    /\ results = << >>
    /\ total_dividends = 0
    /\ total_stock_splits = 0
    /\ files_with_data = 0
    /\ files_with_errors = 0
    /\ response = << >>
    /\ exc = ""

\* lengths around every window, and the longest
SmaLens ==
    {SMA_PERIODS[k] - 1 : k \in DOMAIN SMA_PERIODS}
      \cup {SMA_PERIODS[k] : k \in DOMAIN SMA_PERIODS} \cup {MaxLen}

\* a close column of n prices, NaN at the positions of nulls
Closes(n, v, nulls) ==
    [i \in 1..n |-> IF i \in nulls THEN NaN ELSE ((i * v) % 7) + 1]

\* no null, or one at the start, in the middle or at the end
NullChoices(n) == {{}, {1}, {(n + 1) \div 2}, {n}}

InitSMA ==
    /\ Idle
    /\ \E n \in SmaLens, v \in {1, 3} : \E nulls \in NullChoices(n) :
          ind = [close |-> Closes(n, v, nulls), k |-> 0, out |-> << >>]

\* line 42 for the next period of SMA_PERIODS
SmaStep ==
    /\ ind.k < Len(SMA_PERIODS)
    /\ ind' = [ind EXCEPT !.k = @ + 1,
                          !.out = Append(@, RollingMean(ind.close, SMA_PERIODS[ind.k + 1]))]
    /\ UNCHANGED scan_vars

SpecSMA == InitSMA /\ [][SmaStep]_vars

InitEMA ==
    /\ Idle
    /\ \E n \in 1..MaxEmaRows : \E c \in [1..n -> {NaN, 1, 2}] :
          ind = [close |-> c, k |-> 0, out |-> << >>]

\* line 44 for the next period of EMA_PERIODS
EmaStep ==
    /\ ind.k < Len(EMA_PERIODS)
    /\ ind' = [ind EXCEPT !.k = @ + 1,
                          !.out = Append(@, EwmMean(ind.close, EMA_PERIODS[ind.k + 1]))]
    /\ UNCHANGED scan_vars

SpecEMA == InitEMA /\ [][EmaStep]_vars

---------------------------------------------------------------------------
(* Properties of the indicator calculations *)

\* close[lo] + ... + close[hi]
RECURSIVE SumRange(_, _, _)
SumRange(close, lo, hi) ==
    IF lo > hi THEN 0
    ELSE IF lo = hi THEN close[lo]
    ELSE LET mid == (lo + hi) \div 2
         IN SumRange(close, lo, mid) + SumRange(close, mid + 1, hi)

\* position i (1-based) of a window w: the w closes ending at i
Window(i, w) == (i - w + 1)..i

HasNull(close, i, w) == \E j \in Window(i, w) : close[j] = NaN

WindowMean(close, i, w) == Q(SumRange(close, i - w + 1, i), w)

\* C8 as stated: for every window w and every input of length >= w (closes
\* nullable), sma_w is missing before position w-1 and from position w-1 on
\* it is defined and equals the mean of the last w closes; one output row
\* per input row.  (Positions are 1-based here: i < w is i0 < w-1.)
C8_SmaDefinedFromWarmUp ==
    \A k \in 1..ind.k :
        LET w == SMA_PERIODS[k]
            sma == ind.out[k]
        IN Len(ind.close) >= w =>
             /\ Len(sma) = Len(ind.close)
             /\ \A i \in 1..Len(ind.close) :
                   /\ i < w => IsNaN(sma[i])
                   /\ i >= w => /\ ~IsNaN(sma[i])
                                /\ ~HasNull(ind.close, i, w) =>
                                      sma[i] = WindowMean(ind.close, i, w)

\* C8 amended: sma_w is missing before position w-1; from position w-1 on it
\* is defined exactly when none of the last w closes is null, and then it
\* equals their mean; one output row per input row.
C8_SmaWarmUpAndNulls ==
    \A k \in 1..ind.k :
        LET w == SMA_PERIODS[k]
            sma == ind.out[k]
        IN Len(ind.close) >= w =>
             /\ Len(sma) = Len(ind.close)
             /\ \A i \in 1..Len(ind.close) :
                   /\ i < w => IsNaN(sma[i])
                   /\ i >= w => /\ IsNaN(sma[i]) <=> HasNull(ind.close, i, w)
                                /\ ~HasNull(ind.close, i, w) =>
                                      sma[i] = WindowMean(ind.close, i, w)

\* the longest window computed on a table longer than it, the table holding
\* a null: one value is suppressed by the null and a later one is defined
C8_Witness ==
    /\ ind.k = Len(SMA_PERIODS)
    /\ LET w == SMA_PERIODS[ind.k]
           sma == ind.out[ind.k]
       IN /\ Len(ind.close) > w
          /\ IsNaN(sma[w - 1])
          /\ \E i \in w..Len(ind.close) : IsNaN(sma[i])
          /\ \E i \in w..Len(ind.close) :
                ~IsNaN(sma[i]) /\ sma[i] = WindowMean(ind.close, i, w)

Alpha(w) == Q(2, w + 1)

\* alpha*close[i] + (1-alpha)*prev
EmaRecurrence(w, c, prev) ==
    QAdd(QMul(Alpha(w), ToQ(c)), QMul(Q(w - 1, w + 1), prev))

\* C9 as stated: for every window w and every non-empty input (closes
\* nullable), ema_w is defined at every position, ema_w[0] == close[0], and
\* ema_w[i] == alpha*close[i] + (1-alpha)*ema_w[i-1] for i > 0.
C9_EmaTotal ==
    \A k \in 1..ind.k :
        LET w == EMA_PERIODS[k]
            ema == ind.out[k]
        IN /\ Len(ema) = Len(ind.close)
           /\ \A i \in 1..Len(ind.close) :
                 /\ ~IsNaN(ema[i])
                 /\ i = 1 => ema[i] = ToQ(ind.close[i])
                 /\ i > 1 => ema[i] = EmaRecurrence(w, ind.close[i], ema[i - 1])

\* C9 amended: ema_w is missing exactly while every close so far is null;
\* ema_w[0] == close[0] when close[0] is not null; the recurrence holds at
\* every i > 0 where close[i] and close[i-1] are both not null; a null close
\* repeats the previous value.
C9_EmaFromFirstObservation ==
    \A k \in 1..ind.k :
        LET w == EMA_PERIODS[k]
            ema == ind.out[k]
        IN /\ Len(ema) = Len(ind.close)
           /\ \A i \in 1..Len(ind.close) :
                 /\ IsNaN(ema[i]) <=> \A j \in 1..i : ind.close[j] = NaN
                 /\ (i = 1 /\ ind.close[i] # NaN) => ema[i] = ToQ(ind.close[i])
                 /\ (i > 1 /\ ind.close[i] # NaN /\ ind.close[i - 1] # NaN) =>
                       ema[i] = EmaRecurrence(w, ind.close[i], ema[i - 1])
                 /\ (i > 1 /\ ind.close[i] = NaN) => ema[i] = ema[i - 1]

\* every EMA computed on a table without nulls whose closes differ
C9_Witness ==
    /\ ind.k = Len(EMA_PERIODS)
    /\ Len(ind.close) >= 3
    /\ \A i \in 1..Len(ind.close) : ind.close[i] # NaN
    /\ ind.close[1] # ind.close[2]
    /\ ind.out[1][2] # ind.out[1][1]
    /\ Len(ind.out) = Len(EMA_PERIODS)

---------------------------------------------------------------------------
(* Properties of the scans *)

IsDirCli == tool \in {"cli_dividends", "cli_splits"}

\* the name and the rows of one entry of results
TableName(t) == IF IsDirCli THEN t.file ELSE t[1]["file"]

TableRows(t) == IF IsDirCli THEN t.df ELSE t

\* the event column of the running scan, "None" in full mode
EventColumn ==
    CASE tool = "api" /\ request.mode = "dividends" -> "dividends"
      [] tool = "api" /\ request.mode = "splits" -> "stock splits"
      [] tool = "cli_dividends" -> "dividends"
      [] tool \in {"cli_splits", "cli_list"} -> "stock splits"
      [] OTHER -> "None"

Processed == {files[i] : i \in 1..idx}

\* a source every step of every scanner can work on
WellFormed(f) ==
    /\ f.status = "ok"
    /\ AllCols \subseteq f.columns
    /\ f.symbol_is_str
    /\ f.close_is_num

\* C2: in a dividends scan and in a splits scan every row that reaches the
\* results (the accumulated tables, and the rows of the response) has a
\* non-zero value in the event column.
C2_EventRowsNonZero ==
    EventColumn # "None" =>
       /\ \A k \in DOMAIN results :
             \A i \in DOMAIN TableRows(results[k]) :
                TableRows(results[k])[i][EventColumn] # 0
       /\ (pc = "returned" /\ "results" \in DOMAIN response) =>
             \A i \in DOMAIN response.results : response.results[i][EventColumn] # 0

\* a dividends scan under a ticker filter returned rows of a file that also
\* holds a matching row without dividend
C2_Witness ==
    /\ tool = "api" /\ request.mode = "dividends" /\ pc = "returned"
    /\ request.ticker # NoneStr
    /\ response.results # << >>
    /\ \E i \in DOMAIN files : \E j \in DOMAIN files[i].rows :
          /\ files[i].rows[j]["dividends"] = 0
          /\ Upper(files[i].rows[j]["symbol"]) = Upper(request.ticker)

\* C7: under a ticker filter a row (that passes the event gate) of a source
\* is retained iff its symbol equals the filter value case-insensitively and
\* exactly, in the API scan and in the command-line scanners.
C7_TickerCaseInsensitive ==
    (tool # "none" /\ request.ticker # NoneStr) =>
       \A f \in Processed :
          WellFormed(f) =>
             \A j \in DOMAIN f.rows :
                LET row == f.rows[j]
                    gate == EventColumn = "None" \/ row[EventColumn] # 0
                    kept == \E k \in DOMAIN results :
                               /\ TableName(results[k]) = f.name
                               /\ \E i \in DOMAIN TableRows(results[k]) :
                                     /\ TableRows(results[k])[i]["symbol"] = row["symbol"]
                                     /\ TableRows(results[k])[i]["timestamp"] = row["timestamp"]
                IN gate => (kept <=> Upper(row["symbol"]) = Upper(request.ticker))

ResponseKeys ==
    {"files_scanned", "files_with_data", "files_with_errors",
     "elapsed_seconds", "results"}

\* C4: the only hard failure of an API scan is the missing data directory;
\* whenever the directory exists the handler returns a well-formed result.
C4_OnlyMissingDirectoryFails ==
    tool = "api" =>
       /\ pc = "raised" => ~dir_exists
       /\ pc = "returned" => ResponseKeys \subseteq DOMAIN response

\* C5: every success response of a dividends scan contains total_dividends,
\* of a splits scan total_stock_splits, of a full scan neither; with empty
\* results the total is 0.
C5_ModeTotalInEveryResponse ==
    (tool = "api" /\ pc = "returned") =>
       /\ request.mode = "dividends" =>
             /\ "total_dividends" \in DOMAIN response
             /\ "total_stock_splits" \notin DOMAIN response
             /\ response.results = << >> => response["total_dividends"] = 0
       /\ request.mode = "splits" =>
             /\ "total_stock_splits" \in DOMAIN response
             /\ "total_dividends" \notin DOMAIN response
             /\ response.results = << >> => response["total_stock_splits"] = 0
       /\ request.mode = "full" =>
             /\ "total_dividends" \notin DOMAIN response
             /\ "total_stock_splits" \notin DOMAIN response

\* C1: when the columns of the files that decode are well typed, so that
\* only reading can fail: with N candidate files of which K fail to read,
\* the scan ends by returning, with files_scanned = N and
\* files_with_errors = K, and every row of the results carries the name of
\* a file that was read.
C1_PartialFailureIsolation ==
    (/\ tool = "api" /\ pc \in {"returned", "raised"}
     /\ files # << >>
     /\ \A i \in DOMAIN files : files[i].symbol_is_str /\ files[i].close_is_num) =>
       /\ pc = "returned"
       /\ response.files_scanned = Len(files)
       /\ response.files_with_errors =
             Cardinality({i \in DOMAIN files : ReadFails(files[i])})
       /\ \A r \in DOMAIN response.results :
             \E i \in DOMAIN files :
                ~ReadFails(files[i]) /\ response.results[r]["file"] = files[i].name

\* some required column is not among the columns the source declares
Lacks(f, required_columns) ==
    \E i \in DOMAIN required_columns : required_columns[i] \notin f.columns

\* the loop takes its next file, f
TakesFile(f) == pc = "loop" /\ idx < Len(files) /\ idx' = idx + 1 /\ f = files[idx + 1]

Untouched ==
    UNCHANGED << results, files_with_data, files_with_errors,
                 total_dividends, total_stock_splits >>

RECURSIVE IsSubseq(_, _)
IsSubseq(s, t) ==
    IF s = << >> THEN TRUE
    ELSE IF t = << >> THEN FALSE
    ELSE IF Head(s) = Head(t) THEN IsSubseq(Tail(s), Tail(t))
    ELSE IsSubseq(s, Tail(t))

Count(x, s) == Cardinality({i \in DOMAIN s : s[i] = x})

\* every element of s occurs in t at least as often
IsSubBag(s, t) == \A i \in DOMAIN s : Count(s[i], s) <= Count(s[i], t)

SortedByTimestamp(df) ==
    \A i, j \in DOMAIN df : i < j => df[i]["timestamp"] <= df[j]["timestamp"]

\* the columns of the file that a table of the results carries
BaseCols ==
    IF tool = "api" THEN
        IF request.mode = "full" THEN ALL_COLUMNS
        ELSE Endpoint(request.mode).required_columns
    ELSE << "timestamp", "symbol", EventColumn >>

FileNamed(name) == CHOOSE f \in Range(files) : f.name = name

Names(tables) == [k \in DOMAIN tables |-> TableName(tables[k])]

\* the tables of the results stand in source-processing order, and the
\* returned rows are their concatenation, nothing dropped
InSourceOrder ==
    /\ IsSubseq(Names(results), [i \in 1..idx |-> files[i].name])
    /\ (tool = "api" /\ pc = "returned" /\ files # << >>) =>
          response.results = Concat(results)

KeepsFileOrder(t) ==
    IsSubseq(Project(TableRows(t), BaseCols),
             Project(FileNamed(TableName(t)).rows, BaseCols))

RaisesInApi(f) ==
    \/ ReadFails(f)
    \/ /\ ~Lacks(f, Endpoint(request.mode).required_columns)
       /\ \/ request.ticker # NoneStr /\ ~f.symbol_is_str
          \/ /\ request.mode = "full"
             /\ ~f.close_is_num
             /\ \E j \in DOMAIN f.rows :
                   request.ticker # NoneStr =>
                      Upper(f.rows[j]["symbol"]) = Upper(request.ticker)

RECURSIVE TotalRows(_)
TotalRows(tables) ==
    IF tables = << >> THEN 0 ELSE Len(Head(tables)) + TotalRows(Tail(tables))

\* C10: after any number of processed sources, a source whose processing
\* raised has no row in the results and is counted once in
\* files_with_errors and not in files_with_data; files_with_data +
\* files_with_errors <= files scanned so far; files_with_data is the number
\* of distinct file tags in the results; in dividends / splits mode the
\* mode total is the number of rows in the results (and the other total 0).
C10_MergeAllOrNothing ==
    tool = "api" =>
       /\ \A i \in 1..idx :
             RaisesInApi(files[i]) =>
                \A k \in DOMAIN results : TableName(results[k]) # files[i].name
       /\ files_with_errors = Cardinality({i \in 1..idx : RaisesInApi(files[i])})
       /\ files_with_data + files_with_errors <= idx
       /\ files_with_data = Cardinality({TableName(results[k]) : k \in DOMAIN results})
       /\ files_with_data = Len(results)
       /\ total_dividends =
             IF request.mode = "dividends" THEN TotalRows(results) ELSE 0
       /\ total_stock_splits =
             IF request.mode = "splits" THEN TotalRows(results) ELSE 0

\* a splits scan under a ticker filter has passed a file that raised on its
\* symbol column and a file that gave rows
C10_Witness ==
    /\ tool = "api" /\ request.mode = "splits" /\ request.ticker # NoneStr
    /\ idx = 2
    /\ files_with_errors = 1
    /\ files_with_data = 1
    /\ total_stock_splits >= 1
    /\ \E i \in 1..idx : ~ReadFails(files[i]) /\ RaisesInApi(files[i])

====
